---------------------------- MODULE Spec2Model ----------------------------
(* Red-black tree engine of the Red-Black tree simulator page             *)
(* (src/unnamed/part_006): node records on a heap, rotations, insertion    *)
(* with fixup, deletion by rebuild, search and traversals.                 *)
(*                                                                         *)
(* The functions of the source mutate objects in place, statement after    *)
(* statement.  Each is an operator from the heap before to the heap after; *)
(* a statement that reads what an earlier one wrote is an operator applied *)
(* to the heap the earlier one returns.                                    *)
EXTENDS Integers, Sequences, FiniteSets, TLC

(* ---------------------------------------------------------------------- *)
(* Bounds                                                                  *)
(* ---------------------------------------------------------------------- *)
\* keys offered to insertRB / deleteNodeAndRebalance are 1..MaxKey
MaxKey == 8
\* the caller calls deleteNodeAndRebalance on trees of at most MaxDelete nodes
MaxDelete == 4
\* the caller calls a rotation, a traversal or a search on trees of at most
\* MaxProbe nodes
MaxProbe == 4

KeySet == 1..MaxKey

(* ---------------------------------------------------------------------- *)
(* Node model: a heap of RBNode objects.  A heap is a function from the    *)
(* addresses of the allocated objects to their records; Null is the null   *)
(* reference.                                                              *)
(* ---------------------------------------------------------------------- *)
Null == 0

RED == "RED"
BLACK == "BLACK"

VARIABLES
    heap,      \* the RBNode objects reachable from the caller's root
    root,      \* the root the caller holds (Null: empty tree)
    op,        \* the last operation: [name, value, found, iters, reddened]
    inserted   \* the values passed to insertRB to build the tree at root

vars == <<heap, root, op, inserted>>

EmptyHeap == [a \in {} |-> Null]

\* assignments to one field of one object
SetLeft(h, a, v) == [h EXCEPT ![a].left = v]
SetRight(h, a, v) == [h EXCEPT ![a].right = v]
SetParent(h, a, v) == [h EXCEPT ![a].parent = v]
\* a recolouring that gives the node a new id as well
SetColor_NewId(h, a, c) ==
    [h EXCEPT ![a].color = c, ![a].id = h[a].id + Cardinality(DOMAIN h)]

SetColor(h, a, c) == [h EXCEPT ![a].color = c]

\* a new object gets the least address no allocated object has
Alloc(h) ==
    LET used == DOMAIN h
    IN CHOOSE a \in 1..(Cardinality(used) + 1) :
           a \notin used /\ \A b \in 1..(a - 1) : b \in used

IdsOf(h) == {h[a].id : a \in DOMAIN h}

\* generateId: a string no node of the heap carries (the program relies on
\* nothing but the ids being distinct), the least one
generateId(h) ==
    LET used == IdsOf(h)
    IN CHOOSE i \in 1..(Cardinality(used) + 1) :
           i \notin used /\ \A j \in 1..(i - 1) : j \in used

\* the object literal of createNode at address a
NewNode(h, a, value, parent, color) ==
    [heap |-> (a :> [id |-> generateId(h), value |-> value, color |-> color,
                     left |-> Null, right |-> Null, parent |-> parent]) @@ h,
     node |-> a]

\* createNode with every node RED, whatever color is asked for
createNode_AlwaysRed(h, value, parent, color) ==
    NewNode(h, Alloc(h), value, parent, RED)

\* createNode with every node BLACK, whatever color is asked for
createNode_AlwaysBlack(h, value, parent, color) ==
    NewNode(h, Alloc(h), value, parent, BLACK)

\* createNode(value, parent, color): result [heap, node]
createNode(h, value, parent, color) ==
    NewNode(h, Alloc(h), value, parent, color)

(* ---------------------------------------------------------------------- *)
(* Rotations: result [heap, root]                                          *)
(* ---------------------------------------------------------------------- *)
\* rotateLeft without the update of the inner subtree's parent
RotL_InnerParent_Skipped(h, x, y) == h

\* if (y.left) y.left.parent = x
RotL_InnerParent(h, x, y) ==
    IF h[y].left # Null THEN SetParent(h, h[y].left, x) ELSE h

\* if (!x.parent) newRoot = y; else if (x === x.parent.left) ... else ...
RotL_Child(h, x, y) ==
    IF h[x].parent = Null THEN h
    ELSE IF x = h[h[x].parent].left THEN SetLeft(h, h[x].parent, y)
    ELSE SetRight(h, h[x].parent, y)

\* RotL_Relink exchanging the colors of x and y as well
RotL_Relink_Recoloring(h, rt, x, y) ==
    [heap |-> SetColor(SetColor(SetParent(SetLeft(RotL_Child(h, x, y), y, x),
                                          x, y),
                                x, h[y].color),
                       y, h[x].color),
     root |-> IF h[x].parent = Null THEN y ELSE rt]

\* from `let newRoot = root` to the return
RotL_Relink(h, rt, x, y) ==
    [heap |-> SetParent(SetLeft(RotL_Child(h, x, y), y, x), x, y),
     root |-> IF h[x].parent = Null THEN y ELSE rt]

\* from `y.parent = x.parent` on
RotL_Parent(h, rt, x, y) == RotL_Relink(SetParent(h, y, h[x].parent), rt, x, y)

\* with y = x.right: from `x.right = y.left` on
RotL_From(h, rt, x, y) ==
    RotL_Parent(RotL_InnerParent(SetRight(h, x, h[y].left), x, y), rt, x, y)

rotateLeft(h, rt, x) == RotL_From(h, rt, x, h[x].right)

\* rotateRight without the update of the inner subtree's parent
RotR_InnerParent_Skipped(h, y, x) == h

\* if (x.right) x.right.parent = y
RotR_InnerParent(h, y, x) ==
    IF h[x].right # Null THEN SetParent(h, h[x].right, y) ELSE h

\* if (!y.parent) newRoot = x; else if (y === y.parent.right) ... else ...
RotR_Child(h, y, x) ==
    IF h[y].parent = Null THEN h
    ELSE IF y = h[h[y].parent].right THEN SetRight(h, h[y].parent, x)
    ELSE SetLeft(h, h[y].parent, x)

\* from `let newRoot = root` to the return
RotR_Relink(h, rt, y, x) ==
    [heap |-> SetParent(SetRight(RotR_Child(h, y, x), x, y), y, x),
     root |-> IF h[y].parent = Null THEN x ELSE rt]

\* from `x.parent = y.parent` on
RotR_Parent(h, rt, y, x) == RotR_Relink(SetParent(h, x, h[y].parent), rt, y, x)

\* RotR_From with `y.left = null` for `y.left = x.right`
RotR_From_DroppingInner(h, rt, y, x) ==
    RotR_Parent(RotR_InnerParent(SetLeft(h, y, Null), y, x), rt, y, x)

\* with x = y.left: from `y.left = x.right` on
RotR_From(h, rt, y, x) ==
    RotR_Parent(RotR_InnerParent(SetLeft(h, y, h[x].right), y, x), rt, y, x)

rotateRight(h, rt, y) == RotR_From(h, rt, y, h[y].left)

\* A call of a rotation as its caller sees it: the call returns a root, or
\* it throws.  `const y = x.right!` asserts nothing at run time; with
\* x.right null the next statement, `x.right = y.left`, reads a property
\* of null and throws a TypeError before it assigns (the first statement
\* of rotateRight, `y.left = x.right` with x = y.left null, likewise).
Threw(h, rt) == [threw |-> TRUE, heap |-> h, root |-> rt]

Returned(r) == [threw |-> FALSE, heap |-> r.heap, root |-> r.root]

\* a rotateLeft that goes on without y
callRotateLeft_Tolerant(h, rt, x) ==
    IF h[x].right = Null
    THEN Returned([heap |-> SetParent(h, x, Null),
                   root |-> IF h[x].parent = Null THEN Null ELSE rt])
    ELSE Returned(rotateLeft(h, rt, x))

callRotateLeft(h, rt, x) ==
    IF h[x].right = Null THEN Threw(h, rt)
    ELSE Returned(rotateLeft(h, rt, x))

callRotateRight(h, rt, y) ==
    IF h[y].left = Null THEN Threw(h, rt)
    ELSE Returned(rotateRight(h, rt, y))

(* ---------------------------------------------------------------------- *)
(* Fixup after insertion                                                   *)
(* ---------------------------------------------------------------------- *)
\* the state of the while loop: the heap, the root and z
LoopState(h, rt, z) == [heap |-> h, root |-> rt, z |-> z]

\* a rotation's result with z beside it
WithZ(r, z) == [heap |-> r.heap, root |-> r.root, z |-> z]

\* RecolorCaseA with the uncle left RED
RecolorCaseA_UncleKept(h, p, y, g) ==
    IF g # Null THEN SetColor(SetColor(h, p, BLACK), g, RED)
    ELSE SetColor(h, p, BLACK)

\* Case 1 of either half: parent p and uncle y BLACK, grandparent g RED
\* (the right half guards the recolouring of the grandparent with `if`;
\* in the left half it is there, being the parent of the uncle)
RecolorCaseA(h, p, y, g) ==
    IF g # Null THEN SetColor(SetColor(SetColor(h, p, BLACK), y, BLACK), g, RED)
    ELSE SetColor(SetColor(h, p, BLACK), y, BLACK)

\* LineLeft_Grand with the grandparent's color left as it was
LineLeft_Grand_NoRecolor(h, rt, z) ==
    IF h[h[z].parent].parent # Null
    THEN WithZ(rotateRight(h, rt, h[h[z].parent].parent), z)
    ELSE LoopState(h, rt, z)

\* left half, Case 3 after `z.parent.color = 'BLACK'`:
\* if (z.parent.parent) { recolour it RED, rotateRight about it }
LineLeft_Grand(h, rt, z) ==
    IF h[h[z].parent].parent # Null
    THEN WithZ(rotateRight(SetColor(h, h[h[z].parent].parent, RED), rt,
                           h[h[z].parent].parent), z)
    ELSE LoopState(h, rt, z)

\* LineLeft without `z.parent.color = 'BLACK'`
LineLeft_ParentKept(h, rt, z) ==
    IF h[z].parent # Null THEN LineLeft_Grand(h, rt, z)
    ELSE LoopState(h, rt, z)

\* left half, Case 3: if (z.parent) { ... }
LineLeft(h, rt, z) ==
    IF h[z].parent # Null
    THEN LineLeft_Grand(SetColor(h, h[z].parent, BLACK), rt, z)
    ELSE LoopState(h, rt, z)

\* left half, Case 3 entered from Case 2 (r: what rotateLeft returned)
LineLeft_After(r, z) == LineLeft(r.heap, r.root, z)

\* left half, uncle BLACK or absent: Case 2 when z is a right child, then
\* Case 3
BlackUncleLeft(h, rt, z) ==
    IF z = h[h[z].parent].right
    THEN LineLeft_After(rotateLeft(h, rt, h[z].parent), h[z].parent)
    ELSE LineLeft(h, rt, z)

\* LineRight_Grand with the rotation left out
LineRight_Grand_NoRotation(h, rt, z) ==
    IF h[h[z].parent].parent # Null
    THEN LoopState(SetColor(h, h[h[z].parent].parent, RED), rt, z)
    ELSE LoopState(h, rt, z)

\* right half, Case 3 after `z.parent.color = 'BLACK'`
LineRight_Grand(h, rt, z) ==
    IF h[h[z].parent].parent # Null
    THEN WithZ(rotateLeft(SetColor(h, h[h[z].parent].parent, RED), rt,
                          h[h[z].parent].parent), z)
    ELSE LoopState(h, rt, z)

\* right half, Case 3: if (z.parent) { ... }
LineRight(h, rt, z) ==
    IF h[z].parent # Null
    THEN LineRight_Grand(SetColor(h, h[z].parent, BLACK), rt, z)
    ELSE LoopState(h, rt, z)

\* right half, Case 3 entered from Case 2 (r: what rotateRight returned)
LineRight_After(r, z) == LineRight(r.heap, r.root, z)

\* BlackUncleRight rotating left about the parent in Case 2, as the left
\* half does
BlackUncleRight_LeftRotation(h, rt, z) ==
    IF z = h[h[z].parent].left /\ h[h[z].parent].right # Null
    THEN LineRight_After(rotateLeft(h, rt, h[z].parent), h[z].parent)
    ELSE LineRight(h, rt, z)

\* right half, uncle BLACK or absent
BlackUncleRight(h, rt, z) ==
    IF z = h[h[z].parent].left
    THEN LineRight_After(rotateRight(h, rt, h[z].parent), h[z].parent)
    ELSE LineRight(h, rt, z)

\* LeftHalf with `z = z.parent` for `z = z.parent.parent` in Case 1
LeftHalf_StepsOne(h, rt, z, p, g, y) ==
    IF y # Null /\ h[y].color = RED
    THEN LoopState(RecolorCaseA(h, p, y, g), rt, p)
    ELSE BlackUncleLeft(h, rt, z)

\* the left half, with p = z.parent, g = z.parent.parent, y = g.right
LeftHalf(h, rt, z, p, g, y) ==
    IF y # Null /\ h[y].color = RED
    THEN LoopState(RecolorCaseA(h, p, y, g), rt, g)
    ELSE BlackUncleLeft(h, rt, z)

\* RightHalf with the uncle taken for BLACK whatever its color
RightHalf_UncleIgnored(h, rt, z, p, g, y) == BlackUncleRight(h, rt, z)

\* the right half, with y = z.parent.parent?.left (absent without g)
RightHalf(h, rt, z, p, g, y) ==
    IF y # Null /\ h[y].color = RED
    THEN LoopState(RecolorCaseA(h, p, y, g), rt, g)
    ELSE BlackUncleRight(h, rt, z)

\* the body with p = z.parent and g = z.parent.parent:
\* if (z.parent === z.parent.parent?.left) { ... } else { ... }
FixupBody_At(h, rt, z, p, g) ==
    IF g # Null /\ p = h[g].left
    THEN LeftHalf(h, rt, z, p, g, h[g].right)
    ELSE RightHalf(h, rt, z, p, g, IF g = Null THEN Null ELSE h[g].left)

\* one pass of the body of the while loop: result [heap, root, z]
FixupBody(h, rt, z) == FixupBody_At(h, rt, z, h[z].parent, h[h[z].parent].parent)

\* the loop never entered
FixupCond_Never(h, z) == FALSE

\* while (z.parent && z.parent.color === 'RED')
FixupCond(h, z) == h[z].parent # Null /\ h[h[z].parent].color = RED

RECURSIVE FixupLoop(_, _, _)
\* the loop from the state s a pass of the body left
FixupLoop_From(s) == FixupLoop(s.heap, s.root, s.z)

\* the while loop: result [heap, root]
FixupLoop(h, rt, z) ==
    IF FixupCond(h, z) THEN FixupLoop_From(FixupBody(h, rt, z))
    ELSE [heap |-> h, root |-> rt]

\* the final recolouring of the root forgotten
BlackenRoot_Skipped(h, rt) == h

\* root.color = 'BLACK' after the loop
BlackenRoot(h, rt) == SetColor(h, rt, BLACK)

\* the statements after the loop, r being what the loop left
AfterLoop(r) == [heap |-> BlackenRoot(r.heap, r.root), root |-> r.root]

\* insertFixup(root, k): result [heap, root]
insertFixup(h, rt, k) == AfterLoop(FixupLoop(h, rt, k))

(* ---------------------------------------------------------------------- *)
(* Main insert: result [heap, root]                                        *)
(* ---------------------------------------------------------------------- *)
\* the descent without the test for a duplicate
RECURSIVE Descend_NoDuplicateTest(_, _, _, _)
Descend_NoDuplicateTest(h, x, y, value) ==
    IF x = Null THEN [dup |-> FALSE, y |-> y]
    ELSE IF value < h[x].value
         THEN Descend_NoDuplicateTest(h, h[x].left, x, value)
    ELSE Descend_NoDuplicateTest(h, h[x].right, x, value)

\* the descent loop: result [dup, y]; dup when the value is met, else y is
\* the last node visited
RECURSIVE Descend(_, _, _, _)
Descend(h, x, y, value) ==
    IF x = Null THEN [dup |-> FALSE, y |-> y]
    ELSE IF value < h[x].value THEN Descend(h, h[x].left, x, value)
    ELSE IF value > h[x].value THEN Descend(h, h[x].right, x, value)
    ELSE [dup |-> TRUE, y |-> x]

\* the new node attached on the wrong side
Attach_Mirrored(h, y, z, value) ==
    IF value < h[y].value THEN SetRight(h, y, z) ELSE SetLeft(h, y, z)

\* if (value < y.value) y.left = z; else y.right = z
Attach(h, y, z, value) ==
    IF value < h[y].value THEN SetLeft(h, y, z) ELSE SetRight(h, y, z)

\* a created node returned as the tree
AsTree(c) == [heap |-> c.heap, root |-> c.node]

\* after `const z = createNode(value, y, 'RED')`, c being its result
InsertNew(c, rt, y, value) ==
    IF y = Null THEN AsTree(c)
    ELSE insertFixup(Attach(c.heap, y, c.node, value), rt, c.node)

\* after the descent loop, d being its result
InsertAt(h, rt, value, d) ==
    IF d.dup THEN [heap |-> h, root |-> rt]
    ELSE InsertNew(createNode(h, value, d.y, RED), rt, d.y, value)

insertRB(h, rt, value) ==
    IF rt = Null THEN AsTree(createNode(h, value, Null, BLACK))
    ELSE InsertAt(h, rt, value, Descend(h, rt, Null, value))

\* the createNode call of insertRB(h, rt, value): its result as it is
\* returned, before any later statement of insertRB touches the node
\* (none: the value is a duplicate and createNode is not called)
CreatedNode(c) == [none |-> FALSE, heap |-> c.heap, node |-> c.node]

Created_At(h, value, d) ==
    IF d.dup THEN [none |-> TRUE]
    ELSE CreatedNode(createNode(h, value, d.y, RED))

Created(h, rt, value) ==
    IF rt = Null THEN CreatedNode(createNode(h, value, Null, BLACK))
    ELSE Created_At(h, value, Descend(h, rt, Null, value))

\* the state Case 3 is entered in, from loop state s in the branch of the
\* BLACK or absent uncle: after `z = z.parent` and the rotation about it
\* when z is the inner child (Case 2), s itself otherwise
BeforeLine_Left(s, p) ==
    IF s.z = s.heap[p].right THEN WithZ(rotateLeft(s.heap, s.root, p), p)
    ELSE s

BeforeLine_Right(s, p) ==
    IF s.z = s.heap[p].left THEN WithZ(rotateRight(s.heap, s.root, p), p)
    ELSE s

BeforeLine_At(s, p, g) ==
    IF g # Null /\ p = s.heap[g].left THEN BeforeLine_Left(s, p)
    ELSE BeforeLine_Right(s, p)

BeforeLine(s) ==
    BeforeLine_At(s, s.heap[s.z].parent, s.heap[s.heap[s.z].parent].parent)

\* what an insert did, for the record kept in op.  The state the while
\* loop of insertFixup is entered with, given the descent's result d
\* (none: the value is a duplicate or the tree is empty)
FixupEntry_At(c, rt, y, value) ==
    [none |-> FALSE, heap |-> Attach(c.heap, y, c.node, value), root |-> rt,
     z |-> c.node]

FixupEntry_From(h, rt, value, d) ==
    IF d.dup \/ d.y = Null THEN [none |-> TRUE]
    ELSE FixupEntry_At(createNode(h, value, d.y, RED), rt, d.y, value)

FixupEntry(h, rt, value) ==
    IF rt = Null THEN [none |-> TRUE]
    ELSE FixupEntry_From(h, rt, value, Descend(h, rt, Null, value))

\* the states [heap, root, z] the loop condition is evaluated in, from
\* state s on: the last one is the state the condition fails in
RECURSIVE LoopTrace(_)
LoopTrace(s) ==
    IF FixupCond(s.heap, s.z)
    THEN <<s>> \o LoopTrace(FixupBody(s.heap, s.root, s.z))
    ELSE <<s>>

FixupTrace_From(e) == IF e.none THEN <<>> ELSE LoopTrace(e)

\* the evaluations of the loop condition in insertRB(rt, value); none when
\* insertFixup is not called
FixupTrace(h, rt, value) == FixupTrace_From(FixupEntry(h, rt, value))

\* the number of passes of the while loop from state [heap, root, z]
RECURSIVE LoopPasses(_)
LoopPasses(s) ==
    IF FixupCond(s.heap, s.z)
    THEN 1 + LoopPasses(FixupBody(s.heap, s.root, s.z))
    ELSE 0

FixupPasses_From(e) == IF e.none THEN 0 ELSE LoopPasses(e)

FixupPasses(h, rt, value) == FixupPasses_From(FixupEntry(h, rt, value))

\* the loop ended with a RED root (before root.color = 'BLACK')
RootIsRed(r) == r.heap[r.root].color = RED

RootRedAfterLoop_From(e) ==
    IF e.none THEN FALSE ELSE RootIsRed(FixupLoop(e.heap, e.root, e.z))

RootRedAfterLoop(h, rt, value) ==
    RootRedAfterLoop_From(FixupEntry(h, rt, value))

(* ---------------------------------------------------------------------- *)
(* Deletion by rebuild: result [heap, root]                                *)
(* ---------------------------------------------------------------------- *)
\* collect with the deleted value kept
RECURSIVE collect_KeepsAll(_, _, _)
collect_KeepsAll(h, n, value) ==
    IF n = Null THEN <<>>
    ELSE collect_KeepsAll(h, h[n].left, value) \o <<h[n].value>>
         \o collect_KeepsAll(h, h[n].right, value)

\* collect visiting the node before its subtrees
RECURSIVE collect_PreOrder(_, _, _)
collect_PreOrder(h, n, value) ==
    IF n = Null THEN <<>>
    ELSE (IF h[n].value # value THEN <<h[n].value>> ELSE <<>>)
         \o collect_PreOrder(h, h[n].left, value)
         \o collect_PreOrder(h, h[n].right, value)

\* collect: the values in order, the deleted one left out
RECURSIVE collect(_, _, _)
collect(h, n, value) ==
    IF n = Null THEN <<>>
    ELSE collect(h, h[n].left, value)
         \o (IF h[n].value # value THEN <<h[n].value>> ELSE <<>>)
         \o collect(h, h[n].right, value)

RECURSIVE Rebuild(_, _, _, _)
\* the loop from position i, r being what insertRB returned
Rebuild_From(r, values, i) == Rebuild(r.heap, r.root, values, i)

\* for (const v of values) newRoot = insertRB(newRoot, v), from position i
Rebuild(h, newRoot, values, i) ==
    IF i > Len(values) THEN [heap |-> h, root |-> newRoot]
    ELSE Rebuild_From(insertRB(h, newRoot, values[i]), values, i + 1)

deleteNodeAndRebalance(h, rt, value) ==
    Rebuild(h, Null, collect(h, rt, value), 1)

(* ---------------------------------------------------------------------- *)
(* Traversals and search                                                   *)
(* ---------------------------------------------------------------------- *)
RECURSIVE InOrderFrom(_, _)
InOrderFrom(h, node) ==
    IF node = Null THEN <<>>
    ELSE InOrderFrom(h, h[node].left) \o <<h[node].id>>
         \o InOrderFrom(h, h[node].right)

getInOrderPath(h, rt) == InOrderFrom(h, rt)

RECURSIVE PreOrderFrom(_, _)
PreOrderFrom(h, node) ==
    IF node = Null THEN <<>>
    ELSE <<h[node].id>> \o PreOrderFrom(h, h[node].left)
         \o PreOrderFrom(h, h[node].right)

getPreOrderPath(h, rt) == PreOrderFrom(h, rt)

RECURSIVE PostOrderFrom(_, _)
PostOrderFrom(h, node) ==
    IF node = Null THEN <<>>
    ELSE PostOrderFrom(h, h[node].left) \o PostOrderFrom(h, h[node].right)
         \o <<h[node].id>>

getPostOrderPath(h, rt) == PostOrderFrom(h, rt)

\* Enqueue putting the child at the front of the queue
Enqueue_AtFront(queue, n) == IF n # Null THEN <<n>> \o queue ELSE queue

\* if (child) queue.push(child)
Enqueue(queue, n) == IF n # Null THEN Append(queue, n) ELSE queue

\* one pass of the while loop of getBFSPath, current being queue.shift()
BFSStep(h, queue, current) ==
    Enqueue(Enqueue(queue, h[current].left), h[current].right)

\* while (queue.length > 0) { ... }
RECURSIVE BFSLoop(_, _, _)
BFSLoop(h, queue, path) ==
    IF Len(queue) = 0 THEN path
    ELSE BFSLoop(h, BFSStep(h, Tail(queue), Head(queue)),
                 Append(path, h[Head(queue)].id))

getBFSPath(h, rt) == IF rt = Null THEN <<>> ELSE BFSLoop(h, <<rt>>, <<>>)

\* the search descending on the wrong side
RECURSIVE findNodeByValue_Mirrored(_, _, _)
findNodeByValue_Mirrored(h, rt, val) ==
    IF rt = Null THEN Null
    ELSE IF h[rt].value = val THEN rt
    ELSE IF val < h[rt].value
         THEN findNodeByValue_Mirrored(h, h[rt].right, val)
    ELSE findNodeByValue_Mirrored(h, h[rt].left, val)

RECURSIVE findNodeByValue(_, _, _)
findNodeByValue(h, rt, val) ==
    IF rt = Null THEN Null
    ELSE IF h[rt].value = val THEN rt
    ELSE IF val < h[rt].value THEN findNodeByValue(h, h[rt].left, val)
    ELSE findNodeByValue(h, h[rt].right, val)

(* ---------------------------------------------------------------------- *)
(* Between two calls the objects no reference reaches are reclaimed.  The  *)
(* program never observes an address, and of an id only whether it equals  *)
(* another, so a heap is kept up to renaming of both: the objects are      *)
(* numbered in order (children first, then what only a parent reference    *)
(* reaches) and the ids by first occurrence in that numbering.             *)
(* ---------------------------------------------------------------------- *)
RECURSIVE InOrderAddrs(_, _)
InOrderAddrs(h, node) ==
    IF node = Null THEN <<>>
    ELSE InOrderAddrs(h, h[node].left) \o <<node>>
         \o InOrderAddrs(h, h[node].right)

Range(q) == {q[i] : i \in 1..Len(q)}

Refs(h, a) == {h[a].left, h[a].right, h[a].parent} \ {Null}

RECURSIVE ReachFrom(_, _)
ReachFrom_More(h, seen, more) ==
    IF more = {} THEN seen ELSE ReachFrom(h, seen \cup more)

ReachFrom(h, seen) ==
    ReachFrom_More(h, seen, UNION {Refs(h, a) : a \in seen} \ seen)

Live(h, rt) == IF rt = Null THEN {} ELSE ReachFrom(h, {rt})

RECURSIVE Ascending(_)
Ascending_From(S, m) == <<m>> \o Ascending(S \ {m})

Ascending(S) ==
    IF S = {} THEN <<>>
    ELSE Ascending_From(S, CHOOSE x \in S : \A y \in S : x <= y)

\* the live objects in the order of their new addresses
Order_After(h, rt, inord) == inord \o Ascending(Live(h, rt) \ Range(inord))

Order(h, rt) == Order_After(h, rt, InOrderAddrs(h, rt))

NewAddr(order, a) ==
    IF a = Null THEN Null ELSE CHOOSE n \in 1..Len(order) : order[n] = a

NewId(h, order, i) ==
    CHOOSE n \in 1..Len(order) :
        /\ h[order[n]].id = i
        /\ \A m \in 1..(n - 1) : h[order[m]].id # i

Renumber(h, rt, order) ==
    [heap |-> [n \in 1..Len(order) |->
                 [h[order[n]] EXCEPT !.id = NewId(h, order, @),
                                     !.left = NewAddr(order, @),
                                     !.right = NewAddr(order, @),
                                     !.parent = NewAddr(order, @)]],
     root |-> NewAddr(order, rt)]

Normalise(h, rt) == Renumber(h, rt, Order(h, rt))

(* ---------------------------------------------------------------------- *)
(* The caller: holds a root, calls an operation and keeps the root it      *)
(* returns.                                                                *)
(* ---------------------------------------------------------------------- *)
Init ==
    /\ heap = EmptyHeap
    /\ root = Null
    /\ op = [name |-> "init", value |-> 0, found |-> FALSE, iters |-> 0,
             reddened |-> FALSE]
    /\ inserted = {}

\* the caller keeps the tree r an operation returned
Keep(r) ==
    /\ heap' = r.heap
    /\ root' = r.root

\* r as the caller keeps it
Kept(r) == Normalise(r.heap, r.root)

\* root = insertRB(root, v)
Insert(v) ==
    /\ Keep(Kept(insertRB(heap, root, v)))
    /\ op' = [name |-> "insertRB", value |-> v,
              found |-> findNodeByValue(heap, root, v) # Null,
              iters |-> FixupPasses(heap, root, v),
              reddened |-> RootRedAfterLoop(heap, root, v)]
    /\ inserted' = inserted \cup {v}

\* root = deleteNodeAndRebalance(root, v)
Delete(v) ==
    /\ Cardinality(DOMAIN heap) <= MaxDelete
    /\ Keep(Kept(deleteNodeAndRebalance(heap, root, v)))
    /\ op' = [name |-> "deleteNodeAndRebalance", value |-> v,
              found |-> findNodeByValue(heap, root, v) # Null,
              iters |-> 0, reddened |-> FALSE]
    /\ inserted' = Range(collect(heap, root, v))

Next ==
    \/ \E v \in KeySet : Insert(v)
    \/ \E v \in KeySet : Delete(v)

Spec == Init /\ [][Next]_vars

\* the caller that only inserts: the trees built by insertRB
NextInsert == \E v \in KeySet : Insert(v)

SpecInsert == Init /\ [][NextInsert]_vars

(* ---------------------------------------------------------------------- *)
(* The caller of every function of the engine: besides insertRB and        *)
(* deleteNodeAndRebalance it calls a rotation about a node of its tree, a  *)
(* traversal or a search.  insertRB and deleteNodeAndRebalance are written *)
(* for red-black trees: a tree the caller rotated is not passed on.        *)
(* ---------------------------------------------------------------------- *)
Rotated == op.name \in {"rotateLeft", "rotateRight"}

Small == ~Rotated /\ Cardinality(DOMAIN heap) <= MaxProbe

Grow(v) == ~Rotated /\ Insert(v)

Shrink(v) == ~Rotated /\ Delete(v)

\* the caller keeps the root a rotation returned; when the rotation threw
\* it holds the root it had
KeptCall(c) == Normalise(c.heap, c.root)

\* try { root = rotateLeft(root, x) } catch { threw = true }
RotateLeft(x) ==
    /\ Small
    /\ Keep(KeptCall(callRotateLeft(heap, root, x)))
    /\ op' = [name |-> "rotateLeft", value |-> heap[x].value, found |-> TRUE,
              iters |-> 0, reddened |-> FALSE,
              threw |-> callRotateLeft(heap, root, x).threw]
    /\ UNCHANGED inserted

\* try { root = rotateRight(root, y) } catch { threw = true }
RotateRight(y) ==
    /\ Small
    /\ Keep(KeptCall(callRotateRight(heap, root, y)))
    /\ op' = [name |-> "rotateRight", value |-> heap[y].value, found |-> TRUE,
              iters |-> 0, reddened |-> FALSE,
              threw |-> callRotateRight(heap, root, y).threw]
    /\ UNCHANGED inserted

Traversals ==
    {"getBFSPath", "getPreOrderPath", "getInOrderPath", "getPostOrderPath"}

PathOf(t, h, rt) ==
    CASE t = "getBFSPath" -> getBFSPath(h, rt)
      [] t = "getPreOrderPath" -> getPreOrderPath(h, rt)
      [] t = "getInOrderPath" -> getInOrderPath(h, rt)
      [] t = "getPostOrderPath" -> getPostOrderPath(h, rt)

\* a traversal or a search that unlinks the left subtree of the root
AfterRead_Unlinking(h, rt) ==
    IF rt = Null THEN [heap |-> h, root |-> rt]
    ELSE [heap |-> SetLeft(h, rt, Null), root |-> rt]

\* the tree after a traversal or a search: the five functions assign to
\* no field of a node (they push ids to a new array, shift a queue of
\* their own, or return a node) and the caller keeps its root
AfterRead(h, rt) == [heap |-> h, root |-> rt]

\* path = getXPath(root)
Traverse(t) ==
    /\ Small
    /\ Keep(AfterRead(heap, root))
    /\ op' = [name |-> t, value |-> 0, found |-> FALSE, iters |-> 0,
              reddened |-> FALSE, result |-> PathOf(t, heap, root)]
    /\ UNCHANGED inserted

\* node = findNodeByValue(root, k)
Search(k) ==
    /\ Small
    /\ Keep(AfterRead(heap, root))
    /\ op' = [name |-> "findNodeByValue", value |-> k,
              found |-> findNodeByValue(heap, root, k) # Null,
              iters |-> 0, reddened |-> FALSE,
              result |-> findNodeByValue(heap, root, k)]
    /\ UNCHANGED inserted

NextOps ==
    \/ \E v \in KeySet : Grow(v)
    \/ \E v \in KeySet : Shrink(v)
    \/ \E x \in DOMAIN heap : RotateLeft(x)
    \/ \E y \in DOMAIN heap : RotateRight(y)
    \/ \E t \in Traversals : Traverse(t)
    \/ \E k \in KeySet : Search(k)

SpecOps == Init /\ [][NextOps]_vars

\* getBlackHeight(node): 1 for null, else the result for node.left, plus
\* one when node is BLACK
RECURSIVE getBlackHeight(_, _)
getBlackHeight(h, node) ==
    IF node = Null THEN 1
    ELSE getBlackHeight(h, h[node].left)
         + (IF h[node].color = BLACK THEN 1 ELSE 0)

(* ---------------------------------------------------------------------- *)
(* The component: `tree` is its state (the variable root), handleInsert    *)
(* and handleDelete are its event handlers.                                *)
(* ---------------------------------------------------------------------- *)
\* cloneTree handing back the node it was given
cloneTree_NoCopy(h, node, parent) == [heap |-> h, node |-> node]

\* const newNode = { ...node, parent: parent, left: null, right: null }
\* at address n
CloneNode(h, n, node, parent) ==
    (n :> [h[node] EXCEPT !.parent = parent, !.left = Null, !.right = Null])
    @@ h

RECURSIVE cloneTree(_, _, _)
\* return newNode, c being the result of cloneTree(node.right, newNode)
Clone_Return(c, n) == [heap |-> SetRight(c.heap, n, c.node), node |-> n]

\* newNode.left = (c); newNode.right = cloneTree(node.right, newNode)
Clone_Right(c, node, n) ==
    Clone_Return(cloneTree(SetLeft(c.heap, n, c.node), c.heap[node].right, n),
                 n)

\* newNode.left = cloneTree(node.left, newNode)
Clone_Left(h, node, n) == Clone_Right(cloneTree(h, h[node].left, n), node, n)

\* cloneTree(node, parent): result [heap, node]
cloneTree(h, node, parent) ==
    IF node = Null THEN [heap |-> h, node |-> Null]
    ELSE Clone_Left(CloneNode(h, Alloc(h), node, parent), node, Alloc(h))

\* insertRB(currentTreeClone, val), c being what cloneTree(tree) returned
InsertIntoClone(c, val) == insertRB(c.heap, c.node, val)

\* handleInsert with newValue the numeral of val: result [heap, root], the
\* root being the tree the component holds after it
handleInsert(h, rt, val) ==
    IF findNodeByValue(h, rt, val) # Null THEN [heap |-> h, root |-> rt]
    ELSE InsertIntoClone(cloneTree(h, rt, Null), val)

\* { ...newTree } at address n: a new object with the fields of newTree
SpreadAt(h, n, newTree) == [heap |-> (n :> h[newTree]) @@ h, root |-> n]

\* setTree(newTree ? { ...newTree } : null)
SetTreeSpread(r) ==
    IF r.root = Null THEN r ELSE SpreadAt(r.heap, Alloc(r.heap), r.root)

\* handleDelete with the node at address sel selected
handleDelete(h, rt, sel) ==
    SetTreeSpread(deleteNodeAndRebalance(h, rt, h[sel].value))

\* the nodes the page draws: those under the stored root
Drawn == Range(InOrderAddrs(heap, root))

HandleInsert(v) ==
    /\ Keep(Kept(handleInsert(heap, root, v)))
    /\ op' = [name |-> "handleInsert", value |-> v,
              found |-> findNodeByValue(heap, root, v) # Null,
              iters |-> 0, reddened |-> FALSE]
    /\ inserted' = inserted \cup {v}

\* `if (!tree || !selectedId) return`: a node is selected
HandleDelete(sel) ==
    /\ Cardinality(Drawn) <= MaxDelete
    /\ Keep(Kept(handleDelete(heap, root, sel)))
    /\ op' = [name |-> "handleDelete", value |-> heap[sel].value,
              found |-> TRUE, iters |-> 0, reddened |-> FALSE]
    /\ inserted' = inserted \ {heap[sel].value}

NextUI ==
    \/ \E v \in KeySet : HandleInsert(v)
    \/ \E sel \in Drawn : HandleDelete(sel)

SpecUI == Init /\ [][NextUI]_vars

(* ---------------------------------------------------------------------- *)
(* Vocabulary of the properties                                            *)
(* ---------------------------------------------------------------------- *)
\* the nodes of the tree at rt (following left and right)
NodesOf(h, rt) == Range(InOrderAddrs(h, rt))

KeysOf(h, rt) == {h[a].value : a \in NodesOf(h, rt)}

\* for every node, the keys of its left subtree are strictly smaller and
\* the keys of its right subtree strictly greater
IsBST(h, rt) ==
    \A a \in NodesOf(h, rt) :
        /\ \A k \in KeysOf(h, h[a].left) : k < h[a].value
        /\ \A k \in KeysOf(h, h[a].right) : k > h[a].value

\* the value of the node carrying id i
ValueOfId(h, rt, i) ==
    h[CHOOSE a \in NodesOf(h, rt) : h[a].id = i].value

StrictlyIncreasing(q) == \A i \in 1..(Len(q) - 1) : q[i] < q[i + 1]

NoRedRed(h, rt) ==
    \A a \in NodesOf(h, rt) :
        h[a].color = RED =>
            /\ h[a].left # Null => h[h[a].left].color = BLACK
            /\ h[a].right # Null => h[h[a].right].color = BLACK

\* the numbers of BLACK nodes met on the paths from node n down to a null
\* child (n included)
RECURSIVE BlackCounts(_, _)
BlackCounts(h, n) ==
    IF n = Null THEN {0}
    ELSE LET below == BlackCounts(h, h[n].left) \cup BlackCounts(h, h[n].right)
             own   == IF h[n].color = BLACK THEN 1 ELSE 0
         IN {c + own : c \in below}

EqualBlackHeight(h, rt) ==
    \A a \in NodesOf(h, rt) : Cardinality(BlackCounts(h, a)) = 1

RootIsBlack(h, rt) == rt # Null => h[rt].color = BLACK

IsRedBlack(h, rt) ==
    /\ IsBST(h, rt)
    /\ RootIsBlack(h, rt)
    /\ NoRedRed(h, rt)
    /\ EqualBlackHeight(h, rt)

\* number of nodes on the longest path from n down to a leaf
RECURSIVE Height(_, _)
Height(h, n) ==
    IF n = Null THEN 0
    ELSE LET l == Height(h, h[n].left)
             r == Height(h, h[n].right)
         IN 1 + (IF l >= r THEN l ELSE r)

RECURSIVE Pow2(_)
Pow2(e) == IF e = 0 THEN 1 ELSE 2 * Pow2(e - 1)

\* the tree at rt as a value: shape, keys and colors, no addresses or ids
RECURSIVE Shape(_, _)
Shape(h, n) ==
    IF n = Null THEN <<>>
    ELSE <<Shape(h, h[n].left), h[n].value, h[n].color, Shape(h, h[n].right)>>

\* insertRB applied to the values of q in turn, from position i
RECURSIVE InsertAll(_, _, _, _)
InsertAll(h, rt, q, i) ==
    IF i > Len(q) THEN [heap |-> h, root |-> rt]
    ELSE LET r == insertRB(h, rt, q[i])
         IN InsertAll(r.heap, r.root, q, i + 1)

(* ---------------------------------------------------------------------- *)
(* C1: after any sequence of insertRB calls from the empty tree the tree   *)
(* is a binary search tree (left subtree keys strictly smaller, right      *)
(* subtree keys strictly greater, at every node), and getInOrderPath       *)
(* lists the nodes in strictly increasing key order.                       *)
(* ---------------------------------------------------------------------- *)
InOrderKeys(h, rt) ==
    LET path == getInOrderPath(h, rt)
    IN [i \in 1..Len(path) |-> ValueOfId(h, rt, path[i])]

C1_BSTOrder ==
    /\ IsBST(heap, root)
    /\ StrictlyIncreasing(InOrderKeys(heap, root))
    /\ Range(InOrderKeys(heap, root)) = inserted

\* an insert has built a tree in which some node has both subtrees
C1_Witness ==
    /\ op.name = "insertRB"
    /\ Cardinality(inserted) >= 5
    /\ \E a \in NodesOf(heap, root) :
           /\ Cardinality(KeysOf(heap, heap[a].left)) >= 2
           /\ Cardinality(KeysOf(heap, heap[a].right)) >= 2

(* ---------------------------------------------------------------------- *)
(* C2: after any sequence of insertRB calls no RED node has a RED child.   *)
(* ---------------------------------------------------------------------- *)
C2_NoRedRed == NoRedRed(heap, root)

\* the fixup loop ran in the last insert, and the tree has a RED node with
\* two children
C2_Witness ==
    /\ op.name = "insertRB"
    /\ op.iters >= 1
    /\ \E a \in NodesOf(heap, root) :
           /\ heap[a].color = RED
           /\ heap[a].left # Null
           /\ heap[a].right # Null

(* ---------------------------------------------------------------------- *)
(* C3: after any sequence of insertRB calls, for every node all paths from *)
(* it down to a null child pass through the same number of BLACK nodes.    *)
(* ---------------------------------------------------------------------- *)
C3_EqualBlackHeight == EqualBlackHeight(heap, root)

\* a tree whose paths differ in length, after an insert that ran the fixup
\* loop twice
C3_Witness ==
    /\ op.name = "insertRB"
    /\ op.iters >= 2
    /\ BlackCounts(heap, root) = {2}
    /\ \E a \in NodesOf(heap, root) :
           Height(heap, heap[a].left) # Height(heap, heap[a].right)

(* ---------------------------------------------------------------------- *)
(* C4: after every insertRB call, whichever fixup cases ran (Case A        *)
(* reddening a grandparent that is the root included), the returned root   *)
(* is BLACK.                                                               *)
(* ---------------------------------------------------------------------- *)
C4_RootIsBlack ==
    /\ RootIsBlack(heap, root)
    /\ \A v \in KeySet :
          LET r == insertRB(heap, root, v) IN r.heap[r.root].color = BLACK

\* the loop of the last insert left the root RED
C4_Witness ==
    /\ op.name = "insertRB"
    /\ op.reddened
    /\ heap[root].color = BLACK

(* ---------------------------------------------------------------------- *)
(* C5: for a tree built by insertRB calls, findNodeByValue returns a node  *)
(* holding k for every key k that was inserted and null for every key      *)
(* that was not.                                                           *)
(* ---------------------------------------------------------------------- *)
FoundHolds(h, n, k) == n # Null /\ h[n].value = k

C5_SearchCorrect ==
    \A k \in KeySet :
        IF k \in inserted
        THEN FoundHolds(heap, findNodeByValue(heap, root, k), k)
        ELSE findNodeByValue(heap, root, k) = Null

\* after an insert: some key is absent, and some node is the left child of
\* a right child, so that the search for it turns both ways
C5_Witness ==
    /\ op.name = "insertRB"
    /\ inserted # KeySet
    /\ Cardinality(inserted) >= 5
    /\ \E a \in NodesOf(heap, root) :
           /\ heap[a].right # Null
           /\ heap[heap[a].right].left # Null

(* ---------------------------------------------------------------------- *)
(* C6: inserting a key the tree holds is a no-op: insertRB returns the     *)
(* same root and changes no field of any node, so inserting a key twice    *)
(* gives what inserting it once gives (5 twice: a single BLACK node).      *)
(* ---------------------------------------------------------------------- *)
SameTree(r, h, rt) == r.heap = h /\ r.root = rt

InsertedTwice(r, k) == SameTree(insertRB(r.heap, r.root, k), r.heap, r.root)

C6_DuplicateNoOp ==
    \A k \in KeySet :
        /\ k \in KeysOf(heap, root) =>
               SameTree(insertRB(heap, root, k), heap, root)
        /\ InsertedTwice(insertRB(heap, root, k), k)

\* 5 was inserted into the tree holding 5 alone
C6_Witness ==
    /\ op.name = "insertRB"
    /\ op.value = 5
    /\ op.found
    /\ Shape(heap, root) = <<<<>>, 5, BLACK, <<>>>>

(* ---------------------------------------------------------------------- *)
(* C7: a tree of n nodes built by insertRB calls has height h (nodes on    *)
(* the longest path from the root to a leaf) with 2^ceil(h/2) <= n + 1,    *)
(* that is h <= 2*log2(n+1); 1..7 inserted in ascending order give a tree  *)
(* of height at most 6.                                                    *)
(* ---------------------------------------------------------------------- *)
HeightBound(hgt, n) == Pow2((hgt + 1) \div 2) <= n + 1

OneToSeven == InsertAll(EmptyHeap, Null, <<1, 2, 3, 4, 5, 6, 7>>, 1)

C7_HeightBound ==
    /\ HeightBound(Height(heap, root), Cardinality(NodesOf(heap, root)))
    /\ Height(OneToSeven.heap, OneToSeven.root) <= 6

\* the state is the tree 1..7 inserted in ascending order give, 7 last
C7_Witness ==
    /\ op.name = "insertRB"
    /\ op.value = 7
    /\ ~op.found
    /\ inserted = 1..7
    /\ Shape(heap, root) = Shape(OneToSeven.heap, OneToSeven.root)
    /\ Height(heap, root) >= 4

(* ---------------------------------------------------------------------- *)
(* C8: deleteNodeAndRebalance(T, k) for a key k of a valid tree T returns  *)
(* a tree whose key set is keys(T) minus {k} and which satisfies the       *)
(* red-black invariants (BST order, BLACK root, no red-red edge, equal     *)
(* black-height); when k was the only key it returns null.                 *)
(* ---------------------------------------------------------------------- *)
DeletedFrom(r, h, rt, k) ==
    /\ KeysOf(r.heap, r.root) = KeysOf(h, rt) \ {k}
    /\ IsRedBlack(r.heap, r.root)
    /\ KeysOf(h, rt) = {k} => r.root = Null

C8_DeleteRebuilds ==
    /\ \A k \in KeysOf(heap, root) :
           DeletedFrom(deleteNodeAndRebalance(heap, root, k), heap, root, k)
    /\ op.name = "deleteNodeAndRebalance" =>
           /\ IsRedBlack(heap, root)
           /\ KeysOf(heap, root) = inserted
           /\ op.value \notin inserted

\* a key was deleted from a tree of four nodes
C8_Witness ==
    /\ op.name = "deleteNodeAndRebalance"
    /\ op.found
    /\ Cardinality(KeysOf(heap, root)) = 3

(* ---------------------------------------------------------------------- *)
(* C9: deleting a key that is not in the tree returns the tree unchanged:  *)
(* the same shape, the same keys at the same positions, the same colors.   *)
(* ---------------------------------------------------------------------- *)
SameShape(r, h, rt) == Shape(r.heap, r.root) = Shape(h, rt)

C9_DeleteAbsentUnchanged ==
    \A k \in KeySet \ KeysOf(heap, root) :
        SameShape(deleteNodeAndRebalance(heap, root, k), heap, root)

(* ---------------------------------------------------------------------- *)
(* C10: insertRB(null, k) returns a single node holding k that is BLACK    *)
(* and has no left child, no right child and no parent.                    *)
(* ---------------------------------------------------------------------- *)
LoneBlackNode(h, n, k) ==
    /\ n # Null
    /\ h[n].value = k
    /\ h[n].color = BLACK
    /\ h[n].left = Null
    /\ h[n].right = Null
    /\ h[n].parent = Null

\* r is what insertRB(null, k) returned, called with the objects of h
\* allocated
InsertedIntoEmpty(r, h, k) ==
    /\ r.root \notin DOMAIN h
    /\ LoneBlackNode(r.heap, r.root, k)
    /\ DOMAIN r.heap = DOMAIN h \cup {r.root}
    /\ \A a \in DOMAIN h : r.heap[a] = h[a]

C10_InsertIntoEmpty ==
    /\ \A k \in KeySet : InsertedIntoEmpty(insertRB(heap, Null, k), heap, k)
    /\ (op.name = "insertRB" /\ ~op.found /\ inserted = {op.value}) =>
           /\ LoneBlackNode(heap, root, op.value)
           /\ DOMAIN heap = {root}

\* the last call inserted a key into the empty tree
C10_Witness ==
    /\ op.name = "insertRB"
    /\ ~op.found
    /\ inserted = {op.value}
    /\ root # Null

(* ---------------------------------------------------------------------- *)
(* C11 as stated: every node an insert creates is RED at the moment it is  *)
(* created, the insert into an empty tree included.  insertRB creates the  *)
(* node of an empty tree with createNode(value, null, 'BLACK').            *)
CreatedColor(c) == c.heap[c.node].color

C11_AlwaysCreatedRed ==
    \A k \in KeySet :
        ~Created(heap, root, k).none =>
            CreatedColor(Created(heap, root, k)) = RED

(* C11: an insert of a key that is not in the tree creates one node; the   *)
(* node is RED at the moment it is created when the tree is not empty,     *)
(* and BLACK at that moment when the tree is empty.  An insert of a key    *)
(* that is in the tree creates no node.                                    *)
C11_CreatedRedUnlessEmpty ==
    \A k \in KeySet :
        /\ Created(heap, root, k).none <=> k \in KeysOf(heap, root)
        /\ ~Created(heap, root, k).none =>
               /\ Created(heap, root, k).node \notin DOMAIN heap
               /\ CreatedColor(Created(heap, root, k)) =
                      IF root = Null THEN BLACK ELSE RED

\* the last call inserted a new key into a tree that was not empty
C11_Witness ==
    /\ op.name = "insertRB"
    /\ ~op.found
    /\ Cardinality(inserted) >= 2
    /\ Cardinality(DOMAIN heap) = Cardinality(inserted)

(* ---------------------------------------------------------------------- *)
(* C12: inserting 10, 20, 30 in this order into an empty tree, and         *)
(* likewise inserting 30, 20, 10, yields exactly: root 20 BLACK, left      *)
(* child 10 RED, right child 30 RED, both children being leaves.  The      *)
(* sequences are run from a null root whatever objects exist already.      *)
Leaf(k, c) == <<<<>>, k, c, <<>>>>

BalancedThree(a, b, c) == <<Leaf(a, RED), b, BLACK, Leaf(c, RED)>>

\* the tree insertRB builds from the values of q, from a null root
Built(q) == InsertAll(heap, Null, q, 1)

ShapeOf(r) == Shape(r.heap, r.root)

C12_ThreeKeys ==
    /\ ShapeOf(Built(<<10, 20, 30>>)) = BalancedThree(10, 20, 30)
    /\ ShapeOf(Built(<<30, 20, 10>>)) = BalancedThree(10, 20, 30)
    /\ Cardinality(inserted) = 3 =>
           \E a, b, c \in inserted :
               /\ a < b
               /\ b < c
               /\ Shape(heap, root) = BalancedThree(a, b, c)

\* three keys are in the tree, the largest inserted last into a tree of
\* two, and the loop of insertFixup ran once (Case 3, a rotation)
C12_Witness ==
    /\ op.name = "insertRB"
    /\ ~op.found
    /\ op.iters = 1
    /\ Cardinality(inserted) = 3
    /\ \A k \in inserted : k <= op.value
    /\ \E a, b \in inserted : Shape(heap, root) = BalancedThree(a, b, op.value)

(* ---------------------------------------------------------------------- *)
(* C13: inserting 8, 18, 5, 15, 17, 25, 40, 80 in this order into an empty *)
(* tree yields: root 17 BLACK; its left child 8 RED with BLACK children 5  *)
(* and 15; its right child 25 RED with BLACK children 18 and 40; and 80 a  *)
(* RED right child of 40; no other node.                                   *)
\* the tree of the claim over keys k1 < k2 < ... < k8
EightTree(k) ==
    <<<<Leaf(k[1], BLACK), k[2], RED, Leaf(k[3], BLACK)>>,
      k[4], BLACK,
      <<Leaf(k[5], BLACK), k[6], RED,
        <<<<>>, k[7], BLACK, Leaf(k[8], RED)>>>>>>

C13_EightKeys ==
    ShapeOf(Built(<<8, 18, 5, 15, 17, 25, 40, 80>>)) =
        EightTree(<<5, 8, 15, 17, 18, 25, 40, 80>>)

\* the tree of the claim over keys 1..8, the largest key inserted last
\* into the tree of the other seven
C13_Witness ==
    /\ op.name = "insertRB"
    /\ ~op.found
    /\ op.value = 8
    /\ Shape(heap, root) = EightTree(<<1, 2, 3, 4, 5, 6, 7, 8>>)

(* ---------------------------------------------------------------------- *)
(* C14: rotateLeft(root, x), with y the right child of x, relinks children *)
(* and parents together: y takes x's slot under x's former parent (and     *)
(* the passed root is returned), or y is the new root and is returned      *)
(* when x had no parent; x is the left child of y and x.parent = y; the    *)
(* former left subtree of y is the right subtree of x, its root's parent   *)
(* being x.  rotateRight is the mirror image.                              *)
\* r is what rotateLeft(rt, x) returned on heap h, y being h[x].right
RelinkedLeft(h, rt, x, y, r) ==
    /\ r.heap[y].parent = h[x].parent
    /\ IF h[x].parent = Null THEN r.root = y
       ELSE /\ r.root = rt
            /\ h[h[x].parent].left = x => r.heap[h[x].parent].left = y
            /\ h[h[x].parent].right = x => r.heap[h[x].parent].right = y
    /\ r.heap[y].left = x
    /\ r.heap[x].parent = y
    /\ r.heap[x].right = h[y].left
    /\ h[y].left # Null => r.heap[h[y].left].parent = x

\* r is what rotateRight(rt, y) returned on heap h, x being h[y].left
RelinkedRight(h, rt, y, x, r) ==
    /\ r.heap[x].parent = h[y].parent
    /\ IF h[y].parent = Null THEN r.root = x
       ELSE /\ r.root = rt
            /\ h[h[y].parent].left = y => r.heap[h[y].parent].left = x
            /\ h[h[y].parent].right = y => r.heap[h[y].parent].right = x
    /\ r.heap[x].right = y
    /\ r.heap[y].parent = x
    /\ r.heap[y].left = h[x].right
    /\ h[x].right # Null => r.heap[h[x].right].parent = y

C14_RotationRelinks ==
    \A n \in DOMAIN heap :
        /\ heap[n].right # Null =>
               RelinkedLeft(heap, root, n, heap[n].right,
                            rotateLeft(heap, root, n))
        /\ heap[n].left # Null =>
               RelinkedRight(heap, root, n, heap[n].left,
                             rotateRight(heap, root, n))

\* the caller rotated left about the root, whose right child had a left
\* subtree: the former root is now the left child of the root and has a
\* right subtree
C14_Witness ==
    /\ op.name = "rotateLeft"
    /\ ~op.threw
    /\ \E x \in DOMAIN heap :
           /\ heap[x].value = op.value
           /\ heap[x].right # Null
           /\ heap[x].parent = root
           /\ heap[root].left = x
           /\ heap[root].parent = Null

(* ---------------------------------------------------------------------- *)
(* C15: for any binary search tree and any node with the required child,   *)
(* rotateLeft and rotateRight leave the multiset of keys of the tree and   *)
(* its in-order key sequence unchanged.                                    *)
\* the keys of the tree at rt, read in order
KeySeq(h, rt) ==
    [i \in 1..Len(InOrderAddrs(h, rt)) |-> h[InOrderAddrs(h, rt)[i]].value]

\* how many nodes of the tree at rt hold key k
KeyCount(h, rt, k) == Cardinality({a \in NodesOf(h, rt) : h[a].value = k})

\* the tree r has the keys of the tree at rt, as a multiset and in order
SameKeys(h, rt, r) ==
    /\ KeySeq(r.heap, r.root) = KeySeq(h, rt)
    /\ \A k \in KeySet : KeyCount(r.heap, r.root, k) = KeyCount(h, rt, k)

C15_RotationKeepsKeys ==
    IsBST(heap, root) =>
        \A n \in DOMAIN heap :
            /\ heap[n].right # Null =>
                   SameKeys(heap, root, rotateLeft(heap, root, n))
            /\ heap[n].left # Null =>
                   SameKeys(heap, root, rotateRight(heap, root, n))

\* the caller rotated right about a node that had a parent: the tree is
\* not the red-black tree it was, and holds the keys it held, in order
C15_Witness ==
    /\ op.name = "rotateRight"
    /\ ~op.threw
    /\ Cardinality(inserted) = MaxProbe
    /\ \E y \in DOMAIN heap :
           /\ heap[y].value = op.value
           /\ heap[y].parent # Null
           /\ heap[heap[y].parent].right = y
           /\ heap[heap[y].parent].parent # Null
    /\ StrictlyIncreasing(KeySeq(heap, root))
    /\ Range(KeySeq(heap, root)) = inserted

(* ---------------------------------------------------------------------- *)
(* C16: a rotation is purely structural: it creates and removes no node,   *)
(* changes no key and no color, and modifies only x.right, x.parent,       *)
(* y.left, y.parent, the parent of y's former left child, and the one      *)
(* child link of x's former parent that pointed to x (rotateLeft; the      *)
(* mirror image for rotateRight).                                          *)
\* heap g has the objects of h with their ids, keys and colors
SameNodes(h, g) ==
    /\ DOMAIN g = DOMAIN h
    /\ \A a \in DOMAIN h :
           /\ g[a].id = h[a].id
           /\ g[a].value = h[a].value
           /\ g[a].color = h[a].color

\* g = the heap after rotateLeft about x on h, y being h[x].right
FrameLeft(h, x, y, g) ==
    /\ SameNodes(h, g)
    /\ \A a \in DOMAIN h :
           /\ g[a].left # h[a].left =>
                  a = y \/ (a = h[x].parent /\ h[a].left = x)
           /\ g[a].right # h[a].right =>
                  a = x \/ (a = h[x].parent /\ h[a].right = x)
           /\ g[a].parent # h[a].parent => a \in {x, y, h[y].left}

\* g = the heap after rotateRight about y on h, x being h[y].left
FrameRight(h, y, x, g) ==
    /\ SameNodes(h, g)
    /\ \A a \in DOMAIN h :
           /\ g[a].right # h[a].right =>
                  a = x \/ (a = h[y].parent /\ h[a].right = y)
           /\ g[a].left # h[a].left =>
                  a = y \/ (a = h[y].parent /\ h[a].left = y)
           /\ g[a].parent # h[a].parent => a \in {y, x, h[x].right}

C16_RotationFrame ==
    \A n \in DOMAIN heap :
        /\ heap[n].right # Null =>
               FrameLeft(heap, n, heap[n].right,
                         rotateLeft(heap, root, n).heap)
        /\ heap[n].left # Null =>
               FrameRight(heap, n, heap[n].left,
                          rotateRight(heap, root, n).heap)

\* the caller rotated left about a BLACK node with a RED right child and a
\* parent: the RED node is now above the BLACK one, under that parent
C16_Witness ==
    /\ op.name = "rotateLeft"
    /\ ~op.threw
    /\ \E x \in DOMAIN heap :
           /\ heap[x].value = op.value
           /\ heap[x].color = BLACK
           /\ heap[x].parent # Null
           /\ heap[heap[x].parent].color = RED
           /\ heap[heap[x].parent].parent # Null

(* ---------------------------------------------------------------------- *)
(* C17: rotateLeft on a node with no right child, and rotateRight on a     *)
(* node with no left child, fails fast with an error and leaves every      *)
(* node unmodified; it never returns a malformed tree.                     *)
\* the call c threw and left heap h and root rt as they were
FailedFast(c, h, rt) ==
    /\ c.threw
    /\ c.heap = h
    /\ c.root = rt

RECURSIVE DepthBelow(_, _, _)
DepthBelow(h, n, a) ==
    IF n = a THEN 0
    ELSE IF a \in NodesOf(h, h[n].left) THEN 1 + DepthBelow(h, h[n].left, a)
    ELSE 1 + DepthBelow(h, h[n].right, a)

\* the place of node a in the left-to-right order of the tree at rt
PlaceOf(h, rt, a) ==
    CHOOSE i \in 1..Len(InOrderAddrs(h, rt)) : InOrderAddrs(h, rt)[i] = a

NodeOfId(h, rt, i) == CHOOSE a \in NodesOf(h, rt) : h[a].id = i

\* a comes before b in level order
LevelBefore(h, rt, a, b) ==
    \/ DepthBelow(h, rt, a) < DepthBelow(h, rt, b)
    \/ /\ DepthBelow(h, rt, a) = DepthBelow(h, rt, b)
       /\ PlaceOf(h, rt, a) < PlaceOf(h, rt, b)

IsLevelOrder(h, rt, path) ==
    /\ Len(path) = Cardinality(NodesOf(h, rt))
    /\ Range(path) = {h[a].id : a \in NodesOf(h, rt)}
    /\ \A i, j \in 1..Len(path) :
           i < j => LevelBefore(h, rt, NodeOfId(h, rt, path[i]),
                                NodeOfId(h, rt, path[j]))

C18_BFSLevelOrder ==
    /\ IsLevelOrder(heap, root, getBFSPath(heap, root))
    /\ getBFSPath(heap, Null) = <<>>

\* the caller traversed breadth-first a tree of three levels whose deepest
\* node is under the left child of the root: the right child comes before
\* it in the path
C18_Witness ==
    /\ op.name = "getBFSPath"
    /\ op.result = <<3, 2, 4, 1>>
    /\ op.result = getBFSPath(heap, root)
    /\ op.result # getPreOrderPath(heap, root)

(* ---------------------------------------------------------------------- *)
(* C19: search and the four traversals are read-only and restartable: a    *)
(* call changes no field of any node, and calling the function again on    *)
(* the tree the call left returns the same result.                         *)
ReadNames == Traversals \cup {"findNodeByValue"}

\* what the function named in the record o returns on the tree at rt
ResultOn(o, h, rt) ==
    IF o.name = "findNodeByValue" THEN findNodeByValue(h, rt, o.value)
    ELSE PathOf(o.name, h, rt)

\* the step is a call of a search or a traversal
ReadStep == op'.name \in ReadNames

NewIn(h, g) == DOMAIN g \ DOMAIN h

\* every object of h is in g with its id and key
KeepsIdAndKey(h, g) ==
    \A a \in DOMAIN h :
        /\ a \in DOMAIN g
        /\ g[a].id = h[a].id
        /\ g[a].value = h[a].value

\* r is the tree insertRB(rt, k) returned on heap h
OneNodeMore(h, rt, k, r) ==
    /\ KeepsIdAndKey(h, r.heap)
    /\ IF k \in KeysOf(h, rt) THEN NewIn(h, r.heap) = {}
       ELSE /\ Cardinality(NewIn(h, r.heap)) = 1
            /\ \A a \in NewIn(h, r.heap) :
                   /\ r.heap[a].value = k
                   /\ r.heap[a].id \notin IdsOf(h)
                   /\ a \in NodesOf(r.heap, r.root)

C20_InsertKeepsNodes ==
    \A k \in KeySet : OneNodeMore(heap, root, k, insertRB(heap, root, k))

\* the last call inserted a new key into a tree of at least five nodes and
\* the loop of insertFixup ran (nodes were recolored or relinked)
C20_Witness ==
    /\ op.name = "insertRB"
    /\ ~op.found
    /\ op.iters >= 1
    /\ Cardinality(DOMAIN heap) >= 6
    /\ Cardinality(DOMAIN heap) = Cardinality(inserted)

(* ---------------------------------------------------------------------- *)
(* C21: handleInsert never alters the tree the component held: it inserts  *)
(* into a deep clone.  After handleInsert every node of the prior tree has *)
(* the key, color, left, right and parent it had; the new tree shares no   *)
(* node object with the prior tree; and the clone has the ids, keys,       *)
(* colors and shape of the prior tree before the insertion is applied.     *)
\* the tree at n as a value, ids included
RECURSIVE ShapeWithIds(_, _)
ShapeWithIds(h, n) ==
    IF n = Null THEN <<>>
    ELSE <<ShapeWithIds(h, h[n].left), h[n].id, h[n].value, h[n].color,
           ShapeWithIds(h, h[n].right)>>

\* every object of heap h is in heap g with all its fields
Untouched(h, g) == \A a \in DOMAIN h : a \in DOMAIN g /\ g[a] = h[a]

\* c is what cloneTree(rt) returned on heap h
IsDeepClone(h, rt, c) ==
    /\ Untouched(h, c.heap)
    /\ NodesOf(c.heap, c.node) \cap DOMAIN h = {}
    /\ ShapeWithIds(c.heap, c.node) = ShapeWithIds(h, rt)

\* r is what handleInsert left on heap h, the component holding rt before
InsertedIntoClone(h, rt, k, r) ==
    /\ Untouched(h, r.heap)
    /\ k \notin KeysOf(h, rt) =>
           /\ NodesOf(r.heap, r.root) \cap DOMAIN h = {}
           /\ KeysOf(r.heap, r.root) = KeysOf(h, rt) \cup {k}
    /\ k \in KeysOf(h, rt) => r.root = rt

C21_InsertIntoDeepClone ==
    /\ IsDeepClone(heap, root, cloneTree(heap, root, Null))
    /\ \A k \in KeySet :
           InsertedIntoClone(heap, root, k, handleInsert(heap, root, k))

\* handleInsert added a key to a tree of at least three nodes
C21_Witness ==
    /\ op.name = "handleInsert"
    /\ ~op.found
    /\ Cardinality(NodesOf(heap, root)) >= 4
    /\ KeysOf(heap, root) = inserted

(* ---------------------------------------------------------------------- *)
(* C22: in insertFixup, a pass of the loop that takes the branch of the    *)
(* BLACK or absent uncle (Case 2 then Case 3, or Case 3 alone) is the last *)
(* pass: after it the parent of z is BLACK, so the loop condition fails at *)
(* its next evaluation.                                                    *)
\* the uncle of z in loop state s, Null when there is none
UncleOf(s) ==
    LET p == s.heap[s.z].parent
        g == s.heap[p].parent
    IN IF g = Null THEN Null
       ELSE IF p = s.heap[g].left THEN s.heap[g].right ELSE s.heap[g].left

UncleIsRed(s) == UncleOf(s) # Null /\ s.heap[UncleOf(s)].color = RED

\* the parent of z is there and BLACK in loop state s
ParentIsBlack(s) ==
    /\ s.heap[s.z].parent # Null
    /\ s.heap[s.heap[s.z].parent].color = BLACK

\* in the trace t, every pass through the BLACK-uncle branch is the last
BlackUncleEnds(t) ==
    \A i \in 1..(Len(t) - 1) :
        ~UncleIsRed(t[i]) =>
            /\ i + 1 = Len(t)
            /\ ParentIsBlack(t[i + 1])
            /\ ~FixupCond(t[i + 1].heap, t[i + 1].z)

C22_BlackUncleIsLastPass ==
    \A k \in KeySet : BlackUncleEnds(FixupTrace(heap, root, k))

\* the last insertRB recolored once for a RED uncle and then took the
\* BLACK-uncle branch two levels up, which ended the loop
C22_Witness ==
    /\ op.name = "insertRB"
    /\ ~op.found
    /\ op.iters = 2
    /\ ~op.reddened
    /\ heap[root].value # op.value

(* ---------------------------------------------------------------------- *)
(* C23: when insertRB is called on a red-black tree, every time the body   *)
(* of the loop of insertFixup is entered (z.parent is RED) the grandparent *)
(* z.parent.parent exists: no null is dereferenced, and the guards         *)
(* `if (z.parent)` and `if (z.parent.parent)` are never false.  The trees  *)
(* insertRB is called on are those insertRB built, which satisfy the       *)
(* red-black invariants (C1 to C4).                                        *)
HasParent(s) == s.heap[s.z].parent # Null

HasGrandparent(s) == HasParent(s) /\ s.heap[s.heap[s.z].parent].parent # Null

\* in every pass of trace t the grandparent is there, and in the branch of
\* the BLACK uncle the two guards of Case 3 hold
GuardsHold(t) ==
    \A i \in 1..(Len(t) - 1) :
        /\ HasGrandparent(t[i])
        /\ ~UncleIsRed(t[i]) => HasGrandparent(BeforeLine(t[i]))

C23_GrandparentExists ==
    \A k \in KeySet : GuardsHold(FixupTrace(heap, root, k))

\* the last insertRB ran the loop twice on a red-black tree of at least
\* seven nodes
C23_Witness ==
    /\ op.name = "insertRB"
    /\ ~op.found
    /\ op.iters = 2
    /\ IsRedBlack(heap, root)
    /\ Cardinality(inserted) >= 8

(* ---------------------------------------------------------------------- *)
(* C24: at every evaluation of the loop condition of insertFixup during an *)
(* insertRB on a red-black tree, BST order holds, every path from the root *)
(* to a null has the same number of BLACK nodes, and the only possible     *)
(* violations are one red-red edge, between z and z.parent, or a RED root  *)
(* that is z itself.  Case 1 (RED uncle) moves the violation exactly two   *)
(* levels up, z becoming its former grandparent, and changes no child or   *)
(* parent link.                                                            *)
\* a RED node a with a RED child c in heap h
RedRedEdge(h, a, c) ==
    /\ c # Null
    /\ c \in {h[a].left, h[a].right}
    /\ h[a].color = RED
    /\ h[c].color = RED

ViolationOnlyAtZ(s) ==
    /\ IsBST(s.heap, s.root)
    /\ EqualBlackHeight(s.heap, s.root)
    /\ \A a, c \in NodesOf(s.heap, s.root) :
           RedRedEdge(s.heap, a, c) => c = s.z /\ a = s.heap[s.z].parent
    /\ s.heap[s.root].color = RED => s.root = s.z

SameLinks(h, g) ==
    /\ DOMAIN g = DOMAIN h
    /\ \A a \in DOMAIN h :
           /\ g[a].left = h[a].left
           /\ g[a].right = h[a].right
           /\ g[a].parent = h[a].parent

\* from loop state s a pass of Case 1 led to loop state u
TwoLevelsUp(s, u) ==
    /\ u.z = s.heap[s.heap[s.z].parent].parent
    /\ u.root = s.root
    /\ SameLinks(s.heap, u.heap)
    /\ DepthBelow(u.heap, u.root, u.z) + 2 = DepthBelow(s.heap, s.root, s.z)

LoopInvariant(t) ==
    /\ \A i \in 1..Len(t) : ViolationOnlyAtZ(t[i])
    /\ \A i \in 1..(Len(t) - 1) :
           UncleIsRed(t[i]) => TwoLevelsUp(t[i], t[i + 1])

C24_LoopInvariant ==
    \A k \in KeySet : LoopInvariant(FixupTrace(heap, root, k))

\* the last insertRB recolored for a RED uncle under a node that was not
\* the root, and went on two levels up
C24_Witness ==
    /\ op.name = "insertRB"
    /\ ~op.found
    /\ op.iters = 2
    /\ ~op.reddened
    /\ IsRedBlack(heap, root)
    /\ \E a \in NodesOf(heap, root) :
           /\ heap[a].value = op.value
           /\ heap[a].color = RED
           /\ DepthBelow(heap, root, a) = 3

(* ---------------------------------------------------------------------- *)
(* C25: every tree returned by insertRB or deleteNodeAndRebalance has      *)
(* consistent parent back-references: the parent of the root is null and,  *)
(* for every node n and every child c of n that is present, c.parent is n  *)
(* (the tree passed in being consistent, as every tree the caller holds    *)
(* is).                                                                    *)
ChildrenOf(h, n) == {h[n].left, h[n].right} \ {Null}

ParentsConsistent(h, rt) ==
    /\ rt # Null => h[rt].parent = Null
    /\ \A n \in NodesOf(h, rt) : \A c \in ChildrenOf(h, n) : h[c].parent = n

C25_ParentsConsistent ==
    /\ ParentsConsistent(heap, root)
    /\ DOMAIN heap = NodesOf(heap, root)

\* the last insertRB relinked nodes (its loop ran) in a tree of at least
\* six nodes, or the last call was a delete that left three nodes
C25_Witness ==
    \/ /\ op.name = "insertRB"
       /\ ~op.found
       /\ op.iters >= 1
       /\ Cardinality(NodesOf(heap, root)) >= 6
       /\ heap[heap[root].left].parent = root
    \/ /\ op.name = "deleteNodeAndRebalance"
       /\ Cardinality(NodesOf(heap, root)) = 3
       /\ heap[heap[root].left].parent = root

(* ---------------------------------------------------------------------- *)
(* C26: the two halves of insertFixup are mirror images: for any sequence  *)
(* of distinct keys, inserting the negated keys in the same order yields   *)
(* the left-right mirror image of the tree the sequence yields, with the   *)
(* same color on every corresponding node.  Stated for one more key: the   *)
(* mirror image of a tree, with the negated key inserted, is the mirror    *)
(* image of the tree with the key inserted.                                *)
\* the heap with every key negated and left and right exchanged
MirrorHeap(h) ==
    [a \in DOMAIN h |->
        [h[a] EXCEPT !.value = 0 - h[a].value, !.left = h[a].right,
                     !.right = h[a].left]]

\* the mirror image of a tree given as a value
RECURSIVE MirrorShape(_)
MirrorShape(t) ==
    IF t = <<>> THEN <<>>
    ELSE <<MirrorShape(t[4]), 0 - t[2], t[3], MirrorShape(t[1])>>

Negated(q) == [i \in 1..Len(q) |-> 0 - q[i]]

MirrorsSequence(q) ==
    ShapeOf(Built(Negated(q))) = MirrorShape(ShapeOf(Built(q)))

C26_MirrorSymmetry ==
    /\ Shape(MirrorHeap(heap), root) = MirrorShape(Shape(heap, root))
    /\ \A k \in KeySet \ KeysOf(heap, root) :
           ShapeOf(insertRB(MirrorHeap(heap), root, 0 - k)) =
               MirrorShape(ShapeOf(insertRB(heap, root, k)))
    /\ MirrorsSequence(<<8, 18, 5, 15, 17, 25, 40, 80>>)
    /\ MirrorsSequence(<<4, 1, 3, 2>>)

\* the last insertRB ran the loop of insertFixup and the tree is not its
\* own mirror image in shape
C26_Witness ==
    /\ op.name = "insertRB"
    /\ ~op.found
    /\ op.iters >= 1
    /\ Height(heap, heap[root].left) < Height(heap, heap[root].right)

(* ---------------------------------------------------------------------- *)
(* C27: insertRB terminates on every finite tree: the descent moves one    *)
(* level down per step, and in insertFixup every pass that does not end    *)
(* the loop replaces z by its grandparent, so the depth of z strictly      *)
(* decreases and the loop runs at most once per two levels of the          *)
(* insertion path.                                                         *)
\* the depth of z in loop state s (edges from the root)
DepthOfZ(s) == DepthBelow(s.heap, s.root, s.z)

\* in trace t every pass but the last moves z to its grandparent, two
\* levels up; the passes number at most half the depth z starts at, which
\* is at most the height bound of the tree it was attached to
Climbs(t, bound) ==
    /\ \A i \in 1..(Len(t) - 2) :
           /\ t[i + 1].z = t[i].heap[t[i].heap[t[i].z].parent].parent
           /\ DepthOfZ(t[i + 1]) + 2 = DepthOfZ(t[i])
    /\ Len(t) >= 1 =>
           /\ 2 * (Len(t) - 1) <= DepthOfZ(t[1])
           /\ DepthOfZ(t[1]) <= bound

C27_FixupClimbs ==
    \A k \in KeySet :
        /\ Climbs(FixupTrace(heap, root, k), Height(heap, root))
        /\ FixupPasses(heap, root, k) =
               IF FixupTrace(heap, root, k) = <<>> THEN 0
               ELSE Len(FixupTrace(heap, root, k)) - 1

\* the last insertRB ran the loop twice: the first pass moved z two levels
\* up and the second ended the loop
C27_Witness ==
    /\ op.name = "insertRB"
    /\ ~op.found
    /\ op.iters = 2
    /\ Height(heap, root) >= 4
    /\ Cardinality(NodesOf(heap, root)) = Cardinality(inserted)

(* ---------------------------------------------------------------------- *)
(* C28 as stated: getBlackHeight(n) returns the black-height of n as the   *)
(* glossary defines it, the number of BLACK nodes on any path from n down  *)
(* to a descendant null, not counting n itself, for every node n of every  *)
(* tree built by insertRB.  The code counts n itself when it is BLACK and  *)
(* counts the null as one.                                                 *)
\* the numbers of BLACK nodes on the paths from n down to a null, n left out
BlackBelow(h, n) ==
    {c - (IF h[n].color = BLACK THEN 1 ELSE 0) : c \in BlackCounts(h, n)}

C28_GlossaryBlackHeight ==
    \A n \in NodesOf(heap, root) :
        BlackBelow(heap, n) = {getBlackHeight(heap, n)}

(* ---------------------------------------------------------------------- *)
(* C29: the result of deleteNodeAndRebalance depends only on the set of    *)
(* keys that remain: for any two trees T1 and T2, whatever their shapes,   *)
(* colors and histories, with keys(T1) minus {k1} equal to keys(T2) minus  *)
(* {k2}, the two results have the same shape, keys and colors, those of    *)
(* the remaining keys inserted in ascending order into an empty tree.      *)
\* the tree of the keys of S inserted in ascending order into an empty
\* tree, as a value: it is a function of the set S alone
AscendingTree(S) == ShapeOf(InsertAll(EmptyHeap, Null, Ascending(S), 1))

C29_DeleteDependsOnKeys ==
    \A k \in KeySet :
        ShapeOf(deleteNodeAndRebalance(heap, root, k)) =
            AscendingTree(KeysOf(heap, root) \ {k})

\* handleDelete called deleteNodeAndRebalance on a tree of four keys, and
\* the component holds the tree of the three that remain, as inserted in
\* ascending order
C29_Witness ==
    /\ op.name = "handleDelete"
    /\ Cardinality(inserted) = 3
    /\ op.value \notin inserted
    /\ Shape(heap, root) = AscendingTree(inserted)

(* ---------------------------------------------------------------------- *)
(* C30 as stated: after any sequence of handleInsert and handleDelete the  *)
(* tree the component holds has consistent parent back-references: the     *)
(* parent of the stored root is null, and every child of every stored      *)
(* node, the children of the stored root object included, has that node    *)
(* as its parent.  handleDelete stores a copy of the root object, whose    *)
(* children still refer to the object that was copied.                     *)
C30_StoredParentsConsistent ==
    /\ root # Null => heap[root].parent = Null
    /\ \A n \in Drawn : \A c \in ChildrenOf(heap, n) : heap[c].parent = n

=============================================================================
